---- MODULE Spec2Model ----
(***************************************************************************)
(* Model of the finance_ai core: summarize_cash_flow, months_between,      *)
(* build_future_expense_plan, compute_total_gap (calculations.py) and      *)
(* forecast_expenses, increment_month (forecast.py).                       *)
(*                                                                         *)
(* Money is a Python float in the source.  The model computes with exact   *)
(* rationals [num, den] in lowest terms; IEEE rounding is not modelled.    *)
(* Dates are records [year, month, day]; priority strings are sequences of *)
(* character codes so that str.lower() is computed, not assumed.           *)
(***************************************************************************)
EXTENDS Integers, Sequences, FiniteSets

VARIABLES
    \* ---- build_future_expense_plan / compute_total_gap
    current_balance, average_monthly_surplus, future_expenses, start_date,
    plan_pc, sorted_expenses, balance_remaining, plan, plan_raised,
    gap_pc, gap_surplus, gap,
    \* ---- summarize_cash_flow / forecast_expenses
    records, periods_ahead,
    sum_pc, summary, sum_raised,
    fc_pc, forecast, fc_raised

planVars == <<current_balance, average_monthly_surplus, future_expenses, start_date,
              plan_pc, sorted_expenses, balance_remaining, plan, plan_raised,
              gap_pc, gap_surplus, gap>>
cashVars == <<records, periods_ahead, sum_pc, summary, sum_raised,
              fc_pc, forecast, fc_raised>>
vars == <<planVars, cashVars>>

----------------------------------------------------------------------------
(* Bounds of the model *)
MaxExpenses == 3
MaxRecords == 3
MaxPeriods == 3

----------------------------------------------------------------------------
(* Exact arithmetic standing for Python float arithmetic *)

Abs(x) == IF x < 0 THEN -x ELSE x

RECURSIVE GCD(_, _)
GCD(a, b) == IF b = 0 THEN a ELSE GCD(b, a % b)

\* n / d in lowest terms with a positive denominator (d # 0)
Rat(n, d) ==
    LET g == GCD(Abs(n), Abs(d))
        s == IF d < 0 THEN -1 ELSE 1
    IN  [num |-> (s * n) \div g, den |-> (s * d) \div g]

RatOf(i) == [num |-> i, den |-> 1]
Zero == RatOf(0)
One == RatOf(1)

RatAdd(a, b) == Rat(a.num * b.den + b.num * a.den, a.den * b.den)
RatSub(a, b) == Rat(a.num * b.den - b.num * a.den, a.den * b.den)
RatMul(a, b) == Rat(a.num * b.num, a.den * b.den)
\* a / b for b # 0; Python raises ZeroDivisionError when b = 0
RatDiv(a, b) == Rat(a.num * b.den, a.den * b.num)
RatLt(a, b) == a.num * b.den < b.num * a.den
RatLe(a, b) == a.num * b.den <= b.num * a.den
\* Python's min(a, b) / max(a, b) on two numbers
RatMin(a, b) == IF RatLt(b, a) THEN b ELSE a
RatMax(a, b) == IF RatLt(a, b) THEN b ELSE a

RECURSIVE RatSum(_)
RatSum(s) == IF s = <<>> THEN Zero ELSE RatAdd(s[1], RatSum(Tail(s)))

IntMax(a, b) == IF b > a THEN b ELSE a

RECURSIVE SeqsUpTo(_, _)
\* all sequences over S of length at most n
SeqsUpTo(S, n) ==
    IF n = 0 THEN {<<>>}
    ELSE LET shorter == SeqsUpTo(S, n - 1)
         IN  shorter \cup {Append(s, x) : s \in {t \in shorter : Len(t) = n - 1}, x \in S}

----------------------------------------------------------------------------
(* datetime.date *)

Date(y, m, d) == [year |-> y, month |-> m, day |-> d]

\* date.__lt__ / __le__: lexicographic on (year, month, day)
DateLt(a, b) ==
    \/ a.year < b.year
    \/ a.year = b.year /\ a.month < b.month
    \/ a.year = b.year /\ a.month = b.month /\ a.day < b.day

----------------------------------------------------------------------------
(* Priority strings as character codes *)

\* str.lower() on ASCII: 'A'..'Z' (65..90) map to 'a'..'z'
LowerChar(c) == IF c >= 65 /\ c <= 90 THEN c + 32 ELSE c
Lower(s) == [i \in 1..Len(s) |-> LowerChar(s[i])]

str_high == <<104, 105, 103, 104>>
str_medium == <<109, 101, 100, 105, 117, 109>>
str_low == <<108, 111, 119>>
str_High == <<72, 105, 103, 104>>
str_HIGH == <<72, 73, 71, 72>>
str_Medium == <<77, 101, 100, 105, 117, 109>>
str_LOW == <<76, 79, 87>>
str_urgent == <<117, 114, 103, 101, 110, 116>>
str_empty == <<>>

\* _PRIORITY_RANK.get(priority_value, 3)
PRIORITY_RANK(priority_value) ==
    IF priority_value = str_high THEN 0
    ELSE IF priority_value = str_medium THEN 1
    ELSE IF priority_value = str_low THEN 2
    ELSE 3

----------------------------------------------------------------------------
(* FutureExpense and the planner *)

FutureExpense(name, amount, due_date, priority) ==
    [name |-> name, amount |-> RatOf(amount), due_date |-> due_date, priority |-> priority]

\* _sort_key comparing the priority as written, without lower()
sort_key_case(expense) ==
    [rank |-> PRIORITY_RANK(expense.priority), due |-> expense.due_date]

\* _sort_key: (priority_rank, due_date); None or "" give ""
sort_key(expense) ==
    [rank |-> PRIORITY_RANK(Lower(expense.priority)), due |-> expense.due_date]

\* tuple comparison of two sort keys
KeyLt(a, b) == a.rank < b.rank \/ (a.rank = b.rank /\ DateLt(a.due, b.due))

\* insert e after every element whose key is not greater (stable)
RECURSIVE InsertSorted(_, _)
InsertSorted(e, s) ==
    IF s = <<>> THEN <<e>>
    ELSE IF KeyLt(sort_key(e), sort_key(s[1])) THEN <<e>> \o s
    ELSE <<s[1]>> \o InsertSorted(e, Tail(s))

\* sorted(future_expenses, key=_sort_key): ascending and stable
RECURSIVE Sorted(_)
Sorted(s) ==
    IF s = <<>> THEN <<>>
    ELSE InsertSorted(s[Len(s)], Sorted(SubSeq(s, 1, Len(s) - 1)))

\* months_between without the + 1 for the due month
months_between_exclusive(start, end) ==
    LET months == (end.year - start.year) * 12 + (end.month - start.month)
    IN  IntMax(months, 0)

\* months_between without the clamp of overdue dates
months_between_unclamped(start, end) ==
    LET months == (end.year - start.year) * 12 + (end.month - start.month)
    IN  months + 1

\* months_between(start, end)
months_between(start, end) ==
    LET months == (end.year - start.year) * 12 + (end.month - start.month)
    IN  IntMax(months, 0) + 1

\* the whole balance handed to the expense
allocated_now_all(balance, expense) == balance

\* balance_remaining = current_balance, unclamped
clamped_balance_raw(balance) == balance

\* max(current_balance, 0.0)
clamped_balance(balance) == RatMax(balance, Zero)

allocated_now(balance, expense) == RatMin(balance, expense.amount)

remaining_goal(balance, expense) ==
    RatMax(RatSub(expense.amount, allocated_now(balance, expense)), Zero)

monthly_needed(remaining, months_to_due) ==
    IF months_to_due > 0 THEN RatDiv(remaining, RatOf(months_to_due)) ELSE remaining

\* readiness_ratio without the cap at 1.0
readiness_ratio_uncapped(surplus, remaining, months_to_due) ==
    IF RatLe(surplus, Zero)
    THEN IF RatLt(Zero, remaining) THEN Zero ELSE One
    ELSE LET possible_savings == RatMul(surplus, RatOf(months_to_due))
         IN  IF RatLt(Zero, remaining)
             THEN RatDiv(possible_savings, remaining)
             ELSE One

readiness_ratio(surplus, remaining, months_to_due) ==
    IF RatLe(surplus, Zero)
    THEN IF RatLt(Zero, remaining) THEN Zero ELSE One
    ELSE LET possible_savings == RatMul(surplus, RatOf(months_to_due))
         IN  IF RatLt(Zero, remaining)
             THEN RatMin(RatDiv(possible_savings, remaining), One)
             ELSE One

\* the divisors of the divisions one loop iteration executes
Divisors(surplus, remaining, months_to_due) ==
    (IF months_to_due > 0 THEN {RatOf(months_to_due)} ELSE {})
    \cup (IF ~RatLe(surplus, Zero) /\ RatLt(Zero, remaining) THEN {remaining} ELSE {})

\* the dict appended to plan for one expense
PlanItem(balance, surplus, start, expense) ==
    LET months_to_due == months_between(start, expense.due_date)
        remaining == remaining_goal(balance, expense)
    IN  [name |-> expense.name,
         priority |-> expense.priority,
         due_date |-> expense.due_date,
         months_to_goal |-> months_to_due,
         amount |-> expense.amount,
         allocated_from_balance |-> allocated_now(balance, expense),
         remaining_goal |-> remaining,
         suggested_monthly_contribution |-> monthly_needed(remaining, months_to_due),
         readiness_ratio |-> readiness_ratio(surplus, remaining, months_to_due)]

\* compute_total_gap with the surplus taken as given, negative or not
compute_total_gap_signed(p, surplus) ==
    LET total_required == RatSum([i \in 1..Len(p) |-> p[i].remaining_goal])
        MaxMonths[i \in 0..Len(p)] ==
            IF i = 0 THEN 0 ELSE IntMax(MaxMonths[i - 1], p[i].months_to_goal)
        savings_capacity == RatMul(surplus, RatOf(MaxMonths[Len(p)]))
    IN  [total_remaining_goal |-> total_required,
         savings_capacity |-> savings_capacity,
         savings_gap |-> RatMax(RatSub(total_required, savings_capacity), Zero)]

\* compute_total_gap(plan, average_monthly_surplus)
compute_total_gap(p, surplus) ==
    LET total_required == RatSum([i \in 1..Len(p) |-> p[i].remaining_goal])
        MaxMonths[i \in 0..Len(p)] ==
            IF i = 0 THEN 0 ELSE IntMax(MaxMonths[i - 1], p[i].months_to_goal)
        longest_months == MaxMonths[Len(p)]
        savings_capacity == RatMul(RatMax(surplus, Zero), RatOf(longest_months))
    IN  [total_remaining_goal |-> total_required,
         savings_capacity |-> savings_capacity,
         savings_gap |-> RatMax(RatSub(total_required, savings_capacity), Zero)]

----------------------------------------------------------------------------
(* MonthlyRecord and the summarizer *)

MonthlyRecord(period, income, essential, discretionary, other, savings) ==
    [period |-> period,
     income |-> RatOf(income),
     essential_expenses |-> RatOf(essential),
     discretionary_expenses |-> RatOf(discretionary),
     other_expenses |-> RatOf(other),
     savings_contribution |-> RatOf(savings)]

\* total_expenses leaving other_expenses out
total_expenses_two(r) == RatAdd(r.essential_expenses, r.discretionary_expenses)

total_expenses(r) ==
    RatAdd(RatAdd(r.essential_expenses, r.discretionary_expenses), r.other_expenses)

net_cash_flow(r) ==
    RatSub(RatSub(r.income, total_expenses(r)), r.savings_contribution)

\* sum(values) / months
Mean(values) == RatDiv(RatSum(values), RatOf(Len(values)))

\* the dict summarize_cash_flow returns for a non-empty list
summarize_cash_flow(rs) ==
    LET col(f(_)) == [i \in 1..Len(rs) |-> f(rs[i])]
        income(r) == r.income
        essential(r) == r.essential_expenses
        discretionary(r) == r.discretionary_expenses
        other(r) == r.other_expenses
        savings(r) == r.savings_contribution
    IN  [months |-> Len(rs),
         avg_income |-> Mean(col(income)),
         avg_total_expenses |-> Mean(col(total_expenses)),
         avg_essential |-> Mean(col(essential)),
         avg_discretionary |-> Mean(col(discretionary)),
         avg_other |-> Mean(col(other)),
         avg_savings |-> Mean(col(savings)),
         avg_net |-> Mean(col(net_cash_flow))]

----------------------------------------------------------------------------
(* The forecaster *)

\* increment_month that wraps the month and keeps the year
increment_month_same_year(current, months) ==
    LET total == current.month - 1 + months
    IN  Date(current.year, (total % 12) + 1,
             IF current.day < 28 THEN current.day ELSE 28)

\* increment_month(current, months)
increment_month(current, months) ==
    LET total == current.month - 1 + months
        year_offset == total \div 12
        month == total % 12
    IN  Date(current.year + year_offset, month + 1,
             IF current.day < 28 THEN current.day ELSE 28)

\* LinearRegression().fit(X, y) with X = 0..n-1: the least-squares line (n >= 2)
LinearFit(y) ==
    LET n == Len(y)
        x == [i \in 1..n |-> RatOf(i - 1)]
        sx == RatSum(x)
        sy == RatSum(y)
        sxy == RatSum([i \in 1..n |-> RatMul(x[i], y[i])])
        sxx == RatSum([i \in 1..n |-> RatMul(x[i], x[i])])
        coef == RatDiv(RatSub(RatMul(RatOf(n), sxy), RatMul(sx, sy)),
                       RatSub(RatMul(RatOf(n), sxx), RatMul(sx, sx)))
    IN  [coef |-> coef,
         intercept |-> RatDiv(RatSub(sy, RatMul(coef, sx)), RatOf(n))]

\* model.predict([[new_index]])[0]
Predict(model, new_index) ==
    RatAdd(model.intercept, RatMul(model.coef, RatOf(new_index)))

\* forecast_expenses with the projections floored at zero
forecast_expenses_floored(rs, ahead) ==
    IF Len(rs) < 2
    THEN LET last_record == rs[Len(rs)]
         IN  [i \in 1..ahead |->
                 <<increment_month(last_record.period, i), total_expenses(last_record)>>]
    ELSE LET model == LinearFit([i \in 1..Len(rs) |-> total_expenses(rs[i])])
             last_index == Len(rs) - 1
         IN  [step \in 1..ahead |->
                 <<increment_month(rs[Len(rs)].period, step),
                   RatMax(Predict(model, last_index + step), Zero)>>]

\* the list forecast_expenses returns for a non-empty list of records
forecast_expenses(rs, ahead) ==
    IF Len(rs) < 2
    THEN LET last_record == rs[Len(rs)]
         IN  [i \in 1..ahead |->
                 <<increment_month(last_record.period, i), total_expenses(last_record)>>]
    ELSE LET model == LinearFit([i \in 1..Len(rs) |-> total_expenses(rs[i])])
             last_index == Len(rs) - 1
         IN  [step \in 1..ahead |->
                 <<increment_month(rs[Len(rs)].period, step),
                   Predict(model, last_index + step)>>]

----------------------------------------------------------------------------
(* Inputs *)

ExpensePool ==
    { FutureExpense("Rent Deposit", 1200, Date(2024, 1, 15), str_high),
      FutureExpense("Laptop", 500, Date(2024, 3, 10), str_High),
      FutureExpense("Holiday", 800, Date(2025, 2, 1), str_medium),
      FutureExpense("Gift", 0, Date(2024, 1, 31), str_LOW),
      FutureExpense("Repair", 500, Date(2023, 11, 20), str_urgent),
      FutureExpense("Refund", -300, Date(2024, 2, 1), str_empty),
      FutureExpense("Tax", 2000, Date(2023, 12, 31), str_Medium) }

Balances == {RatOf(-200), Zero, RatOf(1000), RatOf(2500)}
Surpluses == {RatOf(-100), Zero, RatOf(50), RatOf(2500)}
StartDates == {Date(2024, 1, 1), Date(2024, 3, 31)}

RecordPool ==
    { MonthlyRecord(Date(2024, 1, 1), 5000, 2000, 500, 0, 0),
      MonthlyRecord(Date(2024, 2, 1), 5000, 2000, 500, 0, 0),
      MonthlyRecord(Date(2024, 11, 1), 4000, 2500, 700, 100, 300),
      MonthlyRecord(Date(2024, 12, 31), 3000, 1000, 200, 50, 0),
      MonthlyRecord(Date(2023, 12, 1), 6000, 3000, 1000, 500, 200),
      MonthlyRecord(Date(2024, 10, 1), 4500, 2750, 800, 200, 100) }

NoDate == Date(0, 0, 0)

----------------------------------------------------------------------------
(* The state machine: one run is one call of the planner followed by the    *)
(* gap assessment, or calls of the summarizer and forecaster on one list.   *)

PlanIdle ==
    /\ current_balance = Zero /\ average_monthly_surplus = Zero
    /\ future_expenses = <<>> /\ start_date = NoDate
    /\ plan_pc = "idle" /\ sorted_expenses = <<>> /\ balance_remaining = Zero
    /\ plan = <<>> /\ plan_raised = "none"
    /\ gap_pc = "idle" /\ gap_surplus = Zero /\ gap = <<>>

CashIdle ==
    /\ records = <<>> /\ periods_ahead = 0
    /\ sum_pc = "idle" /\ summary = <<>> /\ sum_raised = "none"
    /\ fc_pc = "idle" /\ forecast = <<>> /\ fc_raised = "none"

InitPlan ==
    /\ current_balance \in Balances
    /\ average_monthly_surplus \in Surpluses
    /\ future_expenses \in SeqsUpTo(ExpensePool, MaxExpenses)
    /\ start_date \in StartDates
    /\ plan_pc = "start" /\ sorted_expenses = <<>> /\ balance_remaining = Zero
    /\ plan = <<>> /\ plan_raised = "none"
    /\ gap_pc = "ready" /\ gap_surplus = Zero /\ gap = <<>>
    /\ CashIdle

InitCash ==
    /\ records \in SeqsUpTo(RecordPool, MaxRecords)
    /\ periods_ahead \in 0..MaxPeriods
    /\ sum_pc = "ready" /\ summary = <<>> /\ sum_raised = "none"
    /\ fc_pc = "ready" /\ forecast = <<>> /\ fc_raised = "none"
    /\ PlanIdle

Init == InitPlan \/ InitCash

\* build_future_expense_plan, lines 96-98: sort, empty plan, clamped balance
SortExpenses ==
    /\ plan_pc = "start"
    /\ sorted_expenses' = Sorted(future_expenses)
    /\ plan' = <<>>
    /\ balance_remaining' = clamped_balance(current_balance)
    /\ plan_pc' = "loop"
    /\ UNCHANGED <<current_balance, average_monthly_surplus, future_expenses, start_date,
                   plan_raised, gap_pc, gap_surplus, gap, cashVars>>

\* the loop iteration without balance_remaining -= allocated_now
PlanStep_balance_kept ==
    /\ plan_pc = "loop"
    /\ Len(plan) < Len(sorted_expenses)
    /\ LET expense == sorted_expenses[Len(plan) + 1]
           item == PlanItem(balance_remaining, average_monthly_surplus, start_date, expense)
       IN  plan' = Append(plan, item)
    /\ UNCHANGED <<current_balance, average_monthly_surplus, future_expenses, start_date,
                   plan_pc, plan_raised, balance_remaining,
                   sorted_expenses, gap_pc, gap_surplus, gap, cashVars>>

\* one iteration of the for loop, lines 100-125
PlanStep ==
    /\ plan_pc = "loop"
    /\ Len(plan) < Len(sorted_expenses)
    /\ LET expense == sorted_expenses[Len(plan) + 1]
           item == PlanItem(balance_remaining, average_monthly_surplus, start_date, expense)
       IN  IF Zero \in Divisors(average_monthly_surplus, item.remaining_goal,
                                item.months_to_goal)
           THEN /\ plan_raised' = "ZeroDivisionError"
                /\ plan_pc' = "raised"
                /\ UNCHANGED <<plan, balance_remaining>>
           ELSE /\ plan' = Append(plan, item)
                /\ balance_remaining' = RatSub(balance_remaining, item.allocated_from_balance)
                /\ UNCHANGED <<plan_pc, plan_raised>>
    /\ UNCHANGED <<current_balance, average_monthly_surplus, future_expenses, start_date,
                   sorted_expenses, gap_pc, gap_surplus, gap, cashVars>>

\* return plan, line 127
PlanReturn ==
    /\ plan_pc = "loop"
    /\ Len(plan) = Len(sorted_expenses)
    /\ plan_pc' = "returned"
    /\ UNCHANGED <<current_balance, average_monthly_surplus, future_expenses, start_date,
                   sorted_expenses, balance_remaining, plan, plan_raised,
                   gap_pc, gap_surplus, gap, cashVars>>

\* compute_total_gap on the returned plan, with any surplus
ComputeGap ==
    /\ plan_pc = "returned"
    /\ gap_pc = "ready"
    /\ \E s \in Surpluses :
          /\ gap_surplus' = s
          /\ gap' = <<compute_total_gap(plan, s)>>
    /\ gap_pc' = "done"
    /\ UNCHANGED <<current_balance, average_monthly_surplus, future_expenses, start_date,
                   plan_pc, sorted_expenses, balance_remaining, plan, plan_raised, cashVars>>

\* summarize_cash_flow(records)
Summarize ==
    /\ sum_pc = "ready"
    /\ IF records = <<>>
       THEN sum_raised' = "ValueError" /\ summary' = <<>>
       ELSE sum_raised' = "none" /\ summary' = <<summarize_cash_flow(records)>>
    /\ sum_pc' = "done"
    /\ UNCHANGED <<records, periods_ahead, fc_pc, forecast, fc_raised, planVars>>

\* forecast_expenses returning an empty list for an empty list of records
Forecast_unguarded ==
    /\ fc_pc = "ready"
    /\ fc_raised' = "none"
    /\ forecast' = IF records = <<>> THEN <<>> ELSE forecast_expenses(records, periods_ahead)
    /\ fc_pc' = "done"
    /\ UNCHANGED <<records, periods_ahead, sum_pc, summary, sum_raised, planVars>>

\* forecast_expenses(records, periods_ahead)
Forecast ==
    /\ fc_pc = "ready"
    /\ IF records = <<>>
       THEN fc_raised' = "ValueError" /\ forecast' = <<>>
       ELSE fc_raised' = "none" /\ forecast' = forecast_expenses(records, periods_ahead)
    /\ fc_pc' = "done"
    /\ UNCHANGED <<records, periods_ahead, sum_pc, summary, sum_raised, planVars>>

Next == SortExpenses \/ PlanStep \/ PlanReturn \/ ComputeGap \/ Summarize \/ Forecast

Spec == Init /\ [][Next]_vars

----------------------------------------------------------------------------
(* Vocabulary of the properties *)

\* month number of a date on one time line: 12 * year + month
MonthIndex(d) == 12 * d.year + d.month

\* two character codes are the same letter up to case
SameLetter(c, d) ==
    \/ c = d
    \/ c \in 65..90 /\ d = c + 32
    \/ d \in 65..90 /\ c = d + 32

EqIgnoreCase(a, b) ==
    Len(a) = Len(b) /\ \A i \in 1..Len(a) : SameLetter(a[i], b[i])

\* rank of a priority as the specification words it
RankOf(priority) ==
    IF EqIgnoreCase(priority, str_high) THEN 0
    ELSE IF EqIgnoreCase(priority, str_medium) THEN 1
    ELSE IF EqIgnoreCase(priority, str_low) THEN 2
    ELSE 3

\* item b may follow item a in ascending (rank, due_date) order
InOrder(a, b) ==
    \/ RankOf(a.priority) < RankOf(b.priority)
    \/ RankOf(a.priority) = RankOf(b.priority) /\ ~DateLt(b.due_date, a.due_date)

\* the expense a plan item was made from
ExpenseOf(item) ==
    [name |-> item.name, amount |-> item.amount,
     due_date |-> item.due_date, priority |-> item.priority]

Count(s, x) == Cardinality({i \in 1..Len(s) : s[i] = x})

Returned == plan_pc = "returned"

----------------------------------------------------------------------------
\* C1: the returned plan has exactly one item per input expense and is in
\* ascending order of (priority rank, due_date), rank being high=0, medium=1,
\* low=2 case-insensitively and 3 for anything else, whatever the input order.
C1_PlanSortedOnePerExpense ==
    Returned =>
        /\ Len(plan) = Len(future_expenses)
        /\ \A e \in ExpensePool :
              Count([i \in 1..Len(plan) |-> ExpenseOf(plan[i])], e) = Count(future_expenses, e)
        /\ \A i \in 1..(Len(plan) - 1) : InOrder(plan[i], plan[i + 1])

\* a high-priority expense due in March given before one due in January
\* (priorities written "High" and "high"): the January one comes out first
C1_Witness ==
    /\ Returned
    /\ Len(future_expenses) = 2
    /\ future_expenses[1].name = "Laptop" /\ future_expenses[1].due_date.month = 3
    /\ future_expenses[2].name = "Rent Deposit" /\ future_expenses[2].due_date.month = 1
    /\ plan[1].name = "Rent Deposit" /\ plan[2].name = "Laptop"

\* C2: for every plan item allocated_from_balance + remaining_goal = amount and
\* allocated_from_balance <= amount, for any balance, surplus and amounts.
C2_AllocationSplitsAmount ==
    \A i \in 1..Len(plan) :
        /\ RatAdd(plan[i].allocated_from_balance, plan[i].remaining_goal) = plan[i].amount
        /\ RatLe(plan[i].allocated_from_balance, plan[i].amount)

\* a returned plan with an item funded in part: 0 < allocated < amount
C2_Witness ==
    /\ Returned
    /\ \E i \in 1..Len(plan) :
          /\ RatLt(Zero, plan[i].allocated_from_balance)
          /\ RatLt(plan[i].allocated_from_balance, plan[i].amount)
          /\ RatLt(Zero, plan[i].remaining_goal)

\* C3: the allocations of a plan sum to at most max(current_balance, 0), and the
\* running balance_remaining is never negative at any step of the walk.
C3_AllocationWithinBalance ==
    /\ RatLe(Zero, balance_remaining)
    /\ plan_pc \in {"loop", "returned"} =>
          /\ RatLe(RatSum([i \in 1..Len(plan) |-> plan[i].allocated_from_balance]),
                   IF RatLt(current_balance, Zero) THEN Zero ELSE current_balance)
          /\ RatLt(current_balance, Zero) /\ Len(plan) = 0 => balance_remaining = Zero

\* a negative balance and a returned plan of two expenses with positive amounts
C3_Witness ==
    /\ Returned
    /\ RatLt(current_balance, Zero)
    /\ Len(plan) = 2
    /\ \A i \in 1..2 : RatLt(Zero, plan[i].amount) /\ plan[i].allocated_from_balance = Zero
    /\ balance_remaining = Zero

\* C4: readiness_ratio is in [0,1]; with surplus <= 0 it is 0 when
\* remaining_goal > 0 and 1 when remaining_goal = 0; with surplus > 0 it is
\* min(surplus * months_to_goal / remaining_goal, 1) when remaining_goal > 0, else 1.
C4_ReadinessRatio ==
    \A i \in 1..Len(plan) :
        LET r == plan[i].readiness_ratio
            rg == plan[i].remaining_goal
            possible == RatMul(average_monthly_surplus, RatOf(plan[i].months_to_goal))
        IN  /\ RatLe(Zero, r) /\ RatLe(r, One)
            /\ RatLe(Zero, rg)
            /\ rg = Zero => r = One
            /\ RatLe(average_monthly_surplus, Zero) /\ RatLt(Zero, rg) => r = Zero
            /\ RatLt(Zero, average_monthly_surplus) /\ RatLt(Zero, rg) =>
                  IF RatLt(possible, rg)
                  THEN r.num * rg.num * possible.den = possible.num * rg.den * r.den
                  ELSE r = One

\* surplus -100 and an item with remaining_goal 500: readiness_ratio 0
C4_Witness ==
    /\ Returned
    /\ average_monthly_surplus = RatOf(-100)
    /\ \E i \in 1..Len(plan) :
          plan[i].remaining_goal = RatOf(500) /\ plan[i].readiness_ratio = Zero

\* C5: summarize_cash_flow and forecast_expenses raise ValueError exactly when
\* the record list is empty, for any periods_ahead, and then return nothing.
C5_EmptyRecordsRaise ==
    /\ sum_pc = "done" =>
          /\ sum_raised = "ValueError" <=> records = <<>>
          /\ sum_raised \in {"none", "ValueError"}
          /\ records = <<>> => summary = <<>>
          /\ records # <<>> => Len(summary) = 1
    /\ fc_pc = "done" =>
          /\ fc_raised = "ValueError" <=> records = <<>>
          /\ fc_raised \in {"none", "ValueError"}
          /\ records = <<>> => forecast = <<>>

\* both were called on an empty list with periods_ahead >= 1 and both raised
C5_Witness ==
    /\ sum_pc = "done" /\ fc_pc = "done"
    /\ records = <<>> /\ periods_ahead >= 1
    /\ sum_raised = "ValueError" /\ fc_raised = "ValueError"

\* C6: suggested_monthly_contribution = remaining_goal / months_to_goal with
\* months_to_goal >= 1, and no division of the planner fails; balance 1000,
\* surplus 2500 and one high expense of 1200 due in the start month give
\* months 1, allocated 1000, remaining 200, contribution 200, readiness 1.
C6_ContributionAndNoDivisionError ==
    /\ plan_raised = "none"
    /\ plan_pc # "raised"
    /\ \A i \in 1..Len(plan) :
          /\ plan[i].months_to_goal >= 1
          /\ RatMul(plan[i].suggested_monthly_contribution, RatOf(plan[i].months_to_goal))
                = plan[i].remaining_goal
    /\ ( /\ Returned
         /\ current_balance = RatOf(1000)
         /\ average_monthly_surplus = RatOf(2500)
         /\ start_date = Date(2024, 1, 1)
         /\ Len(future_expenses) = 1
         /\ future_expenses[1].name = "Rent Deposit" )
       => /\ Len(plan) = 1
          /\ plan[1].months_to_goal = 1
          /\ plan[1].allocated_from_balance = RatOf(1000)
          /\ plan[1].remaining_goal = RatOf(200)
          /\ plan[1].suggested_monthly_contribution = RatOf(200)
          /\ plan[1].readiness_ratio = One

\* the rent-deposit scenario has returned its one item
C6_Witness ==
    /\ Returned
    /\ current_balance = RatOf(1000)
    /\ average_monthly_surplus = RatOf(2500)
    /\ start_date = Date(2024, 1, 1)
    /\ Len(future_expenses) = 1
    /\ future_expenses[1].name = "Rent Deposit"
    /\ future_expenses[1].amount = RatOf(1200)
    /\ future_expenses[1].due_date.month = start_date.month
    /\ Len(plan) = 1
    /\ plan[1].suggested_monthly_contribution = RatOf(200)

\* C7: compute_total_gap returns total_remaining_goal = the sum of the items'
\* remaining_goal, savings_capacity = max(surplus, 0) * the largest
\* months_to_goal (0 for an empty plan) and savings_gap = max(total - capacity, 0):
\* the gap is never negative and an empty plan gives (0, 0, 0).
C7_GapAssessment ==
    gap_pc = "done" =>
        LET g == gap[1]
            total == RatSum([i \in 1..Len(plan) |-> plan[i].remaining_goal])
            clamped == IF RatLt(gap_surplus, Zero) THEN Zero ELSE gap_surplus
            short == RatSub(g.total_remaining_goal, g.savings_capacity)
        IN  /\ Len(gap) = 1
            /\ g.total_remaining_goal = total
            /\ \E longest \in 0..200 :
                  /\ \A i \in 1..Len(plan) : plan[i].months_to_goal <= longest
                  /\ IF plan = <<>> THEN longest = 0
                     ELSE \E i \in 1..Len(plan) : plan[i].months_to_goal = longest
                  /\ g.savings_capacity = RatMul(clamped, RatOf(longest))
            /\ g.savings_gap = (IF RatLt(short, Zero) THEN Zero ELSE short)
            /\ RatLe(Zero, g.savings_gap)
            /\ plan = <<>> =>
                  /\ g.total_remaining_goal = Zero
                  /\ g.savings_capacity = Zero
                  /\ g.savings_gap = Zero

\* a gap computed with a positive surplus that covers part of what remains
C7_Witness ==
    /\ gap_pc = "done"
    /\ Len(plan) >= 2
    /\ RatLt(Zero, gap_surplus)
    /\ RatLt(Zero, gap[1].savings_capacity)
    /\ RatLt(Zero, gap[1].savings_gap)
    /\ RatLt(gap[1].savings_gap, gap[1].total_remaining_goal)

\* C8: with exactly one record and periods_ahead >= 1 the forecast has
\* periods_ahead entries, each with the record's total_expenses, the k-th dated
\* k calendar months after the record's period (day of month at most 28),
\* also across a December-to-January year change.
C8_SingleRecordForecast ==
    (fc_pc = "done" /\ Len(records) = 1 /\ periods_ahead >= 1) =>
        LET r == records[1]
        IN  /\ Len(forecast) = periods_ahead
            /\ \A k \in 1..periods_ahead :
                  /\ forecast[k][2] =
                        RatAdd(r.essential_expenses,
                               RatAdd(r.discretionary_expenses, r.other_expenses))
                  /\ forecast[k][1].month \in 1..12
                  /\ MonthIndex(forecast[k][1]) = MonthIndex(r.period) + k
                  /\ forecast[k][1].day = (IF r.period.day > 28 THEN 28 ELSE r.period.day)
            /\ \A k \in 1..(periods_ahead - 1) :
                  MonthIndex(forecast[k + 1][1]) = MonthIndex(forecast[k][1]) + 1

\* one December record forecast two or more months ahead: January, February
\* of the next year
C8_Witness ==
    /\ fc_pc = "done"
    /\ Len(records) = 1
    /\ records[1].period.month = 12
    /\ periods_ahead >= 2
    /\ Len(forecast) = periods_ahead
    /\ forecast[1][1].year = records[1].period.year + 1 /\ forecast[1][1].month = 1
    /\ forecast[2][1].year = records[1].period.year + 1 /\ forecast[2][1].month = 2
    /\ forecast[1][2] = forecast[2][2]

\* the sequences that reorder s
Reorderings(s) ==
    LET n == Len(s)
        bij == {f \in [1..n -> 1..n] : \A i, j \in 1..n : f[i] = f[j] => i = j}
    IN  {[i \in 1..n |-> s[f[i]]] : f \in bij}

\* C9: for a non-empty record list summarize_cash_flow returns months = the
\* number of records and avg_total_expenses = the mean of each record's
\* essential + discretionary + other; no average changes under a permutation
\* of the records.
C9_SummaryMeans ==
    (sum_pc = "done" /\ records # <<>>) =>
        LET n == Len(records)
            sm == summary[1]
            totals == [i \in 1..n |->
                         RatAdd(records[i].essential_expenses,
                                RatAdd(records[i].discretionary_expenses,
                                       records[i].other_expenses))]
        IN  /\ sm.months = n
            /\ RatMul(sm.avg_total_expenses, RatOf(n)) = RatSum(totals)
            /\ \A q \in Reorderings(records) : summarize_cash_flow(q) = sm

\* three different records, with other expenses among them, were summarised
C9_Witness ==
    /\ sum_pc = "done"
    /\ Len(records) = 3
    /\ records[1] # records[2] /\ records[2] # records[3] /\ records[1] # records[3]
    /\ \E i \in 1..3 : RatLt(Zero, records[i].other_expenses)
    /\ Len(summary) = 1
    /\ summary[1].months = 3

\* C10: months_to_goal is the inclusive count of calendar months from the start
\* date's month to the due date's month (12 * year difference + month
\* difference + 1, the day ignored): 1 for a due date in the start month and 1,
\* never less, for a due date in an earlier month or year.
C10_MonthsToGoal ==
    \A i \in 1..Len(plan) :
        LET due == plan[i].due_date
            diff == 12 * (due.year - start_date.year) + (due.month - start_date.month)
        IN  /\ plan[i].months_to_goal >= 1
            /\ diff >= 0 => plan[i].months_to_goal = diff + 1
            /\ diff < 0 => plan[i].months_to_goal = 1
            /\ (due.year = start_date.year /\ due.month = start_date.month)
                  => plan[i].months_to_goal = 1

\* one plan holding an expense overdue since the previous year (1 month), one
\* due in the start month on a later day (1 month) and one due 13 months later
\* (14 months)
C10_Witness ==
    /\ Returned
    /\ start_date = Date(2024, 1, 1)
    /\ \E i, j, k \in 1..Len(plan) :
          /\ plan[i].due_date.year < start_date.year /\ plan[i].months_to_goal = 1
          /\ plan[j].due_date = Date(2024, 1, 15) /\ plan[j].months_to_goal = 1
          /\ plan[k].due_date = Date(2025, 2, 1) /\ plan[k].months_to_goal = 14

\* the least-squares line through (0, y[1]) .. (n-1, y[n]) at index t, in the
\* centred form: mean(y) + (t - mean(x)) * Sxy / Sxx
LeastSquaresAt(y, t) ==
    LET n == Len(y)
        xbar == Rat(n - 1, 2)
        ybar == RatDiv(RatSum(y), RatOf(n))
        dx(i) == RatSub(RatOf(i - 1), xbar)
        sxy == RatSum([i \in 1..n |-> RatMul(dx(i), RatSub(y[i], ybar))])
        sxx == RatSum([i \in 1..n |-> RatMul(dx(i), dx(i))])
    IN  RatAdd(ybar, RatMul(RatSub(RatOf(t), xbar), RatDiv(sxy, sxx)))

\* C11: with n >= 2 records and periods_ahead >= 1 the forecast has
\* periods_ahead entries; the k-th is dated k calendar months after the last
\* record's period with day min(day, 28), and its value is the least-squares
\* line over indices 0..n-1 at index n-1+k, unclamped: with a constant step d
\* between consecutive records it is the last total_expenses + k * d, negative
\* whenever that number is negative.
C11_TrendForecast ==
    (fc_pc = "done" /\ Len(records) >= 2 /\ periods_ahead >= 1) =>
        LET n == Len(records)
            last == records[n]
            y == [i \in 1..n |->
                    RatAdd(records[i].essential_expenses,
                           RatAdd(records[i].discretionary_expenses,
                                  records[i].other_expenses))]
            d == RatSub(y[2], y[1])
            constantStep == \A i \in 1..(n - 1) : RatSub(y[i + 1], y[i]) = d
        IN  /\ Len(forecast) = periods_ahead
            /\ \A k \in 1..periods_ahead :
                  /\ forecast[k][1].month \in 1..12
                  /\ MonthIndex(forecast[k][1]) = MonthIndex(last.period) + k
                  /\ forecast[k][1].day = (IF last.period.day > 28 THEN 28 ELSE last.period.day)
                  /\ forecast[k][2] = LeastSquaresAt(y, n - 1 + k)
                  /\ constantStep =>
                        /\ forecast[k][2] = RatAdd(y[n], RatMul(RatOf(k), d))
                        /\ RatLt(RatAdd(y[n], RatMul(RatOf(k), d)), Zero)
                              => RatLt(forecast[k][2], Zero)

\* three records falling by 1250 a month to 1250, the last dated 31 December:
\* the second projection is -1250, dated 28 February of the next year
C11_Witness ==
    /\ fc_pc = "done"
    /\ Len(records) = 3
    /\ periods_ahead >= 2
    /\ records[3].period = Date(2024, 12, 31)
    /\ Len(forecast) = periods_ahead
    /\ forecast[1] = <<Date(2025, 1, 28), Zero>>
    /\ forecast[2] = <<Date(2025, 2, 28), RatOf(-1250)>>

\* C12: allocation is greedy in plan order: with non-negative amounts, once an
\* item is left with remaining_goal > 0 every later item is allocated 0, and
\* the allocations of the returned plan sum to
\* min(max(current_balance, 0), sum of the amounts).
C12_GreedyAllocation ==
    (\A i \in 1..Len(future_expenses) : RatLe(Zero, future_expenses[i].amount)) =>
        /\ \A i \in 1..Len(plan) : \A j \in (i + 1)..Len(plan) :
              RatLt(Zero, plan[i].remaining_goal) => plan[j].allocated_from_balance = Zero
        /\ Returned =>
              LET available == IF RatLt(current_balance, Zero) THEN Zero ELSE current_balance
                  wanted == RatSum([i \in 1..Len(future_expenses) |-> future_expenses[i].amount])
              IN  RatSum([i \in 1..Len(plan) |-> plan[i].allocated_from_balance])
                     = (IF RatLt(wanted, available) THEN wanted ELSE available)

\* three expenses with positive amounts: the first funded in full, the second
\* in part, the third, of lower rank, not at all
C12_Witness ==
    /\ Returned
    /\ Len(plan) = 3
    /\ \A i \in 1..3 : RatLt(Zero, plan[i].amount)
    /\ plan[1].allocated_from_balance = plan[1].amount
    /\ RatLt(Zero, plan[2].allocated_from_balance)
    /\ RatLt(Zero, plan[2].remaining_goal)
    /\ plan[3].allocated_from_balance = Zero
    /\ RankOf(plan[2].priority) < RankOf(plan[3].priority)

----------------------------------------------------------------------------
(* The "Analyse my plan" handler of app.py: summary, surplus, plan, gap and  *)
(* forecast in one run.                                                      *)

MaxAppRecords == 2
MaxAppExpenses == 2

\* forecast_expenses(monthly_records, periods_ahead=6)
AppPeriodsAhead == 6

\* _to_monthly_records: every period is the first of its month
AppRecordPool == {r \in RecordPool : r.period.day = 1}

\* _to_future_expenses: rows with a name and a date
AppExpensePool == {e \in ExpensePool : e.name \in {"Rent Deposit", "Holiday"}}

\* current_savings: a number_input with min_value 0.0
AppBalances == {b \in Balances : RatLe(Zero, b)}

\* monthly_income and the expense figures of the form or the breakdown table
FormIncomes == {Zero, RatOf(5000)}
FormExpenses == {Zero, RatOf(2500)}

\* avg_surplus taken from the summary's avg_net
avg_surplus_net(sm) == sm.avg_net

\* avg_surplus = summary["avg_income"] - summary["avg_total_expenses"]
avg_surplus(sm) == RatSub(sm.avg_income, sm.avg_total_expenses)

\* the summary the handler builds itself when no monthly record was parsed
fallback_summary(monthly_income, base_essential, base_discretionary, base_other) ==
    LET total_estimated_expenses ==
            RatAdd(RatAdd(base_essential, base_discretionary), base_other)
    IN  [months |-> 0,
         avg_income |-> monthly_income,
         avg_total_expenses |-> total_estimated_expenses,
         avg_essential |-> base_essential,
         avg_discretionary |-> base_discretionary,
         avg_other |-> base_other,
         avg_savings |-> Zero,
         avg_net |-> RatSub(monthly_income, total_estimated_expenses)]

InitApp ==
    /\ records \in SeqsUpTo(AppRecordPool, MaxAppRecords)
    /\ future_expenses \in SeqsUpTo(AppExpensePool, MaxAppExpenses)
    /\ current_balance \in AppBalances
    /\ start_date = Date(2024, 1, 1)
    /\ periods_ahead = AppPeriodsAhead
    /\ average_monthly_surplus = Zero
    /\ plan_pc = "analyse" /\ sorted_expenses = <<>> /\ balance_remaining = Zero
    /\ plan = <<>> /\ plan_raised = "none"
    /\ gap_pc = "ready" /\ gap_surplus = Zero /\ gap = <<>>
    /\ sum_pc = "ready" /\ summary = <<>> /\ sum_raised = "none"
    /\ fc_pc = "ready" /\ forecast = <<>> /\ fc_raised = "none"

\* the handler up to the call of build_future_expense_plan
AnalyseBegin ==
    /\ plan_pc = "analyse"
    /\ IF records # <<>>
       THEN /\ summary' = <<summarize_cash_flow(records)>>
            /\ average_monthly_surplus' = avg_surplus(summary'[1])
            /\ sum_pc' = "done"
       ELSE /\ \E monthly_income \in FormIncomes, base_essential \in FormExpenses :
                  /\ summary' = <<fallback_summary(monthly_income, base_essential, Zero, Zero)>>
                  /\ average_monthly_surplus' = RatSub(monthly_income, base_essential)
            /\ sum_pc' = "skipped"
    /\ plan_pc' = IF future_expenses = <<>> THEN "warned" ELSE "start"
    /\ UNCHANGED <<current_balance, future_expenses, start_date, sorted_expenses,
                   balance_remaining, plan, plan_raised, gap_pc, gap_surplus, gap,
                   records, periods_ahead, sum_raised, fc_pc, forecast, fc_raised>>

\* the handler after the plan: compute_total_gap(plan, avg_surplus), then the
\* forecast when there are monthly records
AnalyseFinish ==
    /\ plan_pc = "returned"
    /\ gap_pc = "ready"
    /\ gap_surplus' = average_monthly_surplus
    /\ gap' = <<compute_total_gap(plan, average_monthly_surplus)>>
    /\ gap_pc' = "done"
    /\ IF records # <<>>
       THEN forecast' = forecast_expenses(records, periods_ahead) /\ fc_pc' = "done"
       ELSE forecast' = <<>> /\ fc_pc' = "skipped"
    /\ UNCHANGED <<current_balance, average_monthly_surplus, future_expenses, start_date,
                   plan_pc, sorted_expenses, balance_remaining, plan, plan_raised,
                   records, periods_ahead, sum_pc, summary, sum_raised, fc_raised>>

NextApp == AnalyseBegin \/ SortExpenses \/ PlanStep \/ PlanReturn \/ AnalyseFinish

SpecApp == InitApp /\ [][NextApp]_vars

\* build_future_expense_plan has been called with a surplus computed from a
\* summary of parsed records
SurplusFromRecords == records # <<>> /\ plan_pc \in {"start", "loop", "returned"}

\* the mean over the records of f
MeanOver(f(_)) ==
    RatDiv(RatSum([i \in 1..Len(records) |-> f(records[i])]), RatOf(Len(records)))

\* income - (essential + discretionary + other) of a record
IncomeLessExpenses(r) ==
    RatSub(r.income,
           RatAdd(r.essential_expenses, RatAdd(r.discretionary_expenses, r.other_expenses)))

\* income - expenses - savings_contribution of a record
NetOf(r) == RatSub(IncomeLessExpenses(r), r.savings_contribution)

\* C13 as stated: whenever a monthly record was parsed, the surplus passed to
\* build_future_expense_plan and compute_total_gap is the summary's avg_net,
\* the mean of income - total_expenses - savings_contribution.
C13_SurplusIsAvgNet ==
    SurplusFromRecords =>
        /\ average_monthly_surplus = summary[1].avg_net
        /\ average_monthly_surplus = MeanOver(NetOf)
        /\ gap_pc = "done" => gap_surplus = summary[1].avg_net

\* C13 amended: whenever a monthly record was parsed, the surplus passed to
\* build_future_expense_plan and compute_total_gap is the summary's
\* avg_income - avg_total_expenses, the mean of income - total_expenses; it is
\* avg_net + avg_savings, and equals avg_net exactly when avg_savings is zero.
C13_SurplusIsIncomeLessExpenses ==
    SurplusFromRecords =>
        LET sm == summary[1]
        IN  /\ average_monthly_surplus = RatSub(sm.avg_income, sm.avg_total_expenses)
            /\ average_monthly_surplus = MeanOver(IncomeLessExpenses)
            /\ average_monthly_surplus = RatAdd(sm.avg_net, sm.avg_savings)
            /\ sm.avg_net = MeanOver(NetOf)
            /\ average_monthly_surplus = sm.avg_net <=> sm.avg_savings = Zero
            /\ gap_pc = "done" => gap_surplus = average_monthly_surplus

\* records with savings contributions were analysed through to the gap, and
\* the surplus the planner and the gap were given is above the summary's avg_net
C13_Witness ==
    /\ records # <<>>
    /\ \E i \in 1..Len(records) : RatLt(Zero, records[i].savings_contribution)
    /\ gap_pc = "done"
    /\ Len(plan) >= 1
    /\ gap_surplus = average_monthly_surplus
    /\ RatLt(summary[1].avg_net, average_monthly_surplus)

====
